---- MODULE Spec2Model ----
(***************************************************************************)
(* Model of the document-editing engine of Visual-TkJson-Editor.py:        *)
(* JSONModel (data, undo_stack, redo_stack) and the JsonEditor handlers    *)
(* that mutate it (commit_edit, advanced_move, delete_node_and_contents,   *)
(* delete_node_and_transfer, group_nodes, add_child_node, the text commit, *)
(* undo, redo), together with the view state the handlers read: the        *)
(* Treeview items and the item_to_path table.                              *)
(*                                                                         *)
(* Python values are tagged records:                                       *)
(*   dict   [k |-> "obj", c |-> sequence of [key, val]]  (insertion order) *)
(*   list   [k |-> "arr", c |-> sequence of values]                        *)
(*   int    [k |-> "num", n |-> n]                                         *)
(*   str    [k |-> "str", s |-> s]                                         *)
(*   None   [k |-> "none"]                                                 *)
(* A path segment (and a dict key) is a str [t |-> "k", s |-> s] or an     *)
(* int [t |-> "i", i |-> i]; list indices are 0-based as in Python.        *)
(***************************************************************************)
EXTENDS Integers, Sequences, FiniteSets, TLC

VARIABLES data, undo_stack, redo_stack, tree, item_to_path, text, text_bg,
          last, budget

vars == <<data, undo_stack, redo_stack, tree, item_to_path, text, text_bg,
          last, budget>>

----------------------------------------------------------------------------
(* Values *)

Key(s) == [t |-> "k", s |-> s]
Idx(i) == [t |-> "i", i |-> i]

Obj(c) == [k |-> "obj", c |-> c]
Arr(c) == [k |-> "arr", c |-> c]
Num(n) == [k |-> "num", n |-> n]
Str(s) == [k |-> "str", s |-> s]
None == [k |-> "none"]
KV(s, v) == [key |-> Key(s), val |-> v]

IsDict(v) == v.k = "obj"
IsList(v) == v.k = "arr"
IsStr(v) == v.k = "str"
IsContainer(v) == IsDict(v) \/ IsList(v)

\* The outcome of an expression that raises.
Raise == [k |-> "raise"]
Raised(v) == v.k = "raise"

\* len(s) of a str value; the strings of the model have at most one character.
StrLen(s) == IF s = "" THEN 0 ELSE 1

Keys(d) == [j \in 1..Len(d.c) |-> d.c[j].key]
HasKey(d, key) == \E j \in 1..Len(d.c) : d.c[j].key = key
KeyPos(d, key) == CHOOSE j \in 1..Len(d.c) : d.c[j].key = key

RemoveAt(s, j) == SubSeq(s, 1, j - 1) \o SubSeq(s, j + 1, Len(s))
InsertAt(s, j, e) == SubSeq(s, 1, j - 1) \o <<e>> \o SubSeq(s, j, Len(s))
Last(s) == s[Len(s)]
Front(s) == SubSeq(s, 1, Len(s) - 1)
IsPrefix(p, q) == Len(p) <= Len(q) /\ SubSeq(q, 1, Len(p)) = p

\* value[p]: dict lookup, list or str indexing; anything else raises.
GetItem(value, p) ==
    CASE IsDict(value) ->
            IF HasKey(value, p) THEN value.c[KeyPos(value, p)].val ELSE Raise
      [] IsList(value) ->
            IF p.t = "i" /\ p.i < Len(value.c) THEN value.c[p.i + 1] ELSE Raise
      [] IsStr(value) ->
            IF p.t = "i" /\ p.i < StrLen(value.s) THEN value ELSE Raise
      [] OTHER -> Raise

\* An assignment that puts a new key first instead of last.
DictSet_prepends(d, key, v) ==
    IF HasKey(d, key)
    THEN Obj([d.c EXCEPT ![KeyPos(d, key)] = [key |-> key, val |-> v]])
    ELSE Obj(<<[key |-> key, val |-> v]>> \o d.c)

\* d[key] = v on a dict: an existing key keeps its position, a new one is
\* appended.
DictSet(d, key, v) ==
    IF HasKey(d, key)
    THEN Obj([d.c EXCEPT ![KeyPos(d, key)] = [key |-> key, val |-> v]])
    ELSE Obj(Append(d.c, [key |-> key, val |-> v]))

\* A deletion that drops the last entry whatever the key.
DictDel_drops_last(d, key) == Obj(Front(d.c))

\* del d[key] / d.pop(key) on a dict that holds key.
DictDel(d, key) == Obj(RemoveAt(d.c, KeyPos(d, key)))

\* int(x) of a path segment: a str converts only when it spells a number.
MaxIntText == 9
IsIntText(s) == \E i \in 0..MaxIntText : ToString(i) = s
CanInt(p) == p.t = "i" \/ IsIntText(p.s)
IntOf(p) == IF p.t = "i" THEN p.i
            ELSE CHOOSE i \in 0..MaxIntText : ToString(i) = p.s

RECURSIVE Walk(_, _)
\* The loop "for p in path: value = value[p]"; Raise when a step raises.
Walk(value, path) ==
    IF path = <<>> THEN value
    ELSE LET nxt == GetItem(value, Head(path))
         IN IF Raised(nxt) THEN Raise ELSE Walk(nxt, Tail(path))

\* get_value_by_path: any exception is reported and None is returned.
get_value_by_path(d, path) ==
    LET v == Walk(d, path) IN IF Raised(v) THEN None ELSE v

RECURSIVE Replace(_, _, _)
\* The document d with the container reached by path (which resolves to a
\* dict or a list) replaced by nv: the effect on d of mutating that
\* container in place.
Replace(d, path, nv) ==
    IF path = <<>> THEN nv
    ELSE LET p == Head(path) IN
         IF IsDict(d)
         THEN LET j == KeyPos(d, p) IN
              Obj([d.c EXCEPT ![j] = [key |-> p,
                                      val |-> Replace(d.c[j].val, Tail(path), nv)]])
         ELSE Arr([d.c EXCEPT ![p.i + 1] = Replace(d.c[p.i + 1], Tail(path), nv)])

----------------------------------------------------------------------------
(* Exchange text: json.dumps / json.loads over token sequences.  The      *)
(* indentation json.dumps(indent=2) writes is white space json.loads      *)
(* skips, so it is not represented.                                       *)

P(s) == [t |-> "p", s |-> s]
StrTok(s) == [t |-> "str", s |-> s]
NumTok(n) == [t |-> "num", n |-> n]
NullTok == [t |-> "null"]

\* json.dumps writes every dict key as a JSON string; an int key is written
\* in decimal.
KeyText(key) == IF key.t = "k" THEN key.s ELSE ToString(key.i)

RECURSIVE json_dumps(_)
RECURSIVE DumpMembers(_, _)
RECURSIVE DumpElems(_, _)
json_dumps(v) ==
    CASE IsDict(v) -> <<P("{")>> \o DumpMembers(v.c, 1) \o <<P("}")>>
      [] IsList(v) -> <<P("[")>> \o DumpElems(v.c, 1) \o <<P("]")>>
      [] v.k = "num" -> <<NumTok(v.n)>>
      [] v.k = "str" -> <<StrTok(v.s)>>
      [] OTHER -> <<NullTok>>
DumpMembers(c, j) ==
    IF j > Len(c) THEN <<>>
    ELSE (IF j > 1 THEN <<P(",")>> ELSE <<>>)
         \o <<StrTok(KeyText(c[j].key)), P(":")>> \o json_dumps(c[j].val)
         \o DumpMembers(c, j + 1)
DumpElems(c, j) ==
    IF j > Len(c) THEN <<>>
    ELSE (IF j > 1 THEN <<P(",")>> ELSE <<>>) \o json_dumps(c[j])
         \o DumpElems(c, j + 1)

NoParse == [ok |-> FALSE]
Parsed(v, nxt) == [ok |-> TRUE, val |-> v, nxt |-> nxt]
TokAt(toks, i) == IF i <= Len(toks) THEN toks[i] ELSE [t |-> "eof"]

RECURSIVE ParseValue(_, _)
RECURSIVE ParseMembers(_, _, _)
RECURSIVE ParseElems(_, _, _)
ParseValue(toks, i) ==
    LET tok == TokAt(toks, i) IN
    CASE tok = P("{") ->
            IF TokAt(toks, i + 1) = P("}") THEN Parsed(Obj(<<>>), i + 2)
            ELSE ParseMembers(toks, i + 1, Obj(<<>>))
      [] tok = P("[") ->
            IF TokAt(toks, i + 1) = P("]") THEN Parsed(Arr(<<>>), i + 2)
            ELSE ParseElems(toks, i + 1, <<>>)
      [] tok.t = "num" -> Parsed(Num(tok.n), i + 1)
      [] tok.t = "str" -> Parsed(Str(tok.s), i + 1)
      [] tok.t = "null" -> Parsed(None, i + 1)
      [] OTHER -> NoParse
\* A repeated key keeps its first position and takes the last value, as the
\* dict built by json.loads does.
ParseMembers(toks, i, acc) ==
    IF TokAt(toks, i).t # "str" \/ TokAt(toks, i + 1) # P(":") THEN NoParse
    ELSE LET r == ParseValue(toks, i + 2) IN
         IF ~r.ok THEN NoParse
         ELSE LET acc2 == DictSet(acc, Key(toks[i].s), r.val) IN
              CASE TokAt(toks, r.nxt) = P(",") -> ParseMembers(toks, r.nxt + 1, acc2)
                [] TokAt(toks, r.nxt) = P("}") -> Parsed(acc2, r.nxt + 1)
                [] OTHER -> NoParse
ParseElems(toks, i, acc) ==
    LET r == ParseValue(toks, i) IN
    IF ~r.ok THEN NoParse
    ELSE CASE TokAt(toks, r.nxt) = P(",") ->
                 ParseElems(toks, r.nxt + 1, Append(acc, r.val))
           [] TokAt(toks, r.nxt) = P("]") -> Parsed(Arr(Append(acc, r.val)), r.nxt + 1)
           [] OTHER -> NoParse

\* json.loads(text): the value, or Raise when the text is not one JSON value.
json_loads(toks) ==
    LET r == ParseValue(toks, 1) IN
    IF r.ok /\ r.nxt = Len(toks) + 1 THEN r.val ELSE Raise


----------------------------------------------------------------------------
(* The view: Treeview items and item_to_path.  An item is identified by   *)
(* the path it was created with; tree lists the items in display order.   *)

RECURSIVE insert_items(_, _)
RECURSIVE InsertChildren(_, _, _)
insert_items(item, path) ==
    <<path>> \o (IF IsContainer(item) THEN InsertChildren(item, path, 1) ELSE <<>>)
InsertChildren(item, path, j) ==
    IF j > Len(item.c) THEN <<>>
    ELSE (IF IsDict(item)
          THEN insert_items(item.c[j].val, Append(path, item.c[j].key))
          ELSE insert_items(item.c[j], Append(path, Idx(j - 1))))
         \o InsertChildren(item, path, j + 1)

Range(s) == {s[j] : j \in 1..Len(s)}

\* The editor's state as one record, so that handlers compose.
State == [data |-> data, undo_stack |-> undo_stack, redo_stack |-> redo_stack,
          tree |-> tree, item_to_path |-> item_to_path, text |-> text,
          text_bg |-> text_bg, out |-> "ok", reported |-> FALSE]

\* out: "ok" when the handler ran to its end, "error" when it gave up with
\* show_error (or could not set the value), "raise" when an exception
\* escaped it, "cancel" when it returned because the dialog gave no text.  reported: get_value_by_path showed an error on the way.
Out(st, o) == [st EXCEPT !.out = o]
Report(st, failed) == IF failed THEN [st EXCEPT !.reported = TRUE] ELSE st
Fails(d, path) == Raised(Walk(d, path))

refresh_tree(st) ==
    LET items == insert_items(st.data, <<>>) IN
    [st EXCEPT !.tree = items, !.item_to_path = [it \in Range(items) |-> it]]

update_text_editor(st) == [st EXCEPT !.text = json_dumps(st.data)]

\* tree.parent(item): the root item has none.
TreeParent(item) == Front(item)

----------------------------------------------------------------------------
(* JSONModel *)

\* A push_undo that starts the history over instead of extending it.
push_undo_restarts_history(st) ==
    [st EXCEPT !.undo_stack = <<st.data>>, !.redo_stack = <<>>]

\* undo_stack.append(copy.deepcopy(data)); redo_stack.clear()
push_undo(st) ==
    [st EXCEPT !.undo_stack = Append(@, st.data), !.redo_stack = <<>>]

\* An undo that does not keep the document it leaves for redo.
model_undo_forgets_redo(st) ==
    IF st.undo_stack # <<>>
    THEN [st EXCEPT !.data = Last(st.undo_stack), !.undo_stack = Front(@)]
    ELSE st

model_undo(st) ==
    IF st.undo_stack # <<>>
    THEN [st EXCEPT !.redo_stack = Append(@, st.data),
                    !.data = Last(st.undo_stack),
                    !.undo_stack = Front(@)]
    ELSE st

model_redo(st) ==
    IF st.redo_stack # <<>>
    THEN [st EXCEPT !.undo_stack = Append(@, st.data),
                    !.data = Last(st.redo_stack),
                    !.redo_stack = Front(@)]
    ELSE st

undo(st) == update_text_editor(refresh_tree(model_undo(st)))
redo(st) == update_text_editor(refresh_tree(model_redo(st)))

----------------------------------------------------------------------------
(* Inline edit of a tree cell: commit_edit *)

\* "new_key in parent" for a str new_key: a key of a dict, an element of a
\* list, a substring of a str (of at most one character); on anything else
\* the test raises TypeError.
KeyInRaises(parent) == ~(IsDict(parent) \/ IsList(parent) \/ IsStr(parent))
KeyIn(new_key, parent) ==
    CASE IsDict(parent) -> HasKey(parent, Key(new_key))
      [] IsList(parent) -> \E j \in 1..Len(parent.c) : parent.c[j] = Str(new_key)
      [] OTHER -> parent.s = new_key

\* The items update_paths visits: item and everything below it in the tree.
Subtree(st, item) == {it \in Range(st.tree) : IsPrefix(item, it)}

update_paths(st, item, old_key, new_key) ==
    [st EXCEPT !.item_to_path =
        [it \in DOMAIN @ |->
            IF it \in Subtree(st, item) /\ @[it] # <<>> /\ Last(@[it]) = old_key
            THEN Append(Front(@[it]), Key(new_key))
            ELSE @[it]]]

\* A rename that takes the entry out and puts it back last.
RenameEntry_moves_to_end(parent, old_key, new_key) ==
    DictSet(DictDel(parent, old_key), Key(new_key),
            parent.c[KeyPos(parent, old_key)].val)

\* The dict rebuilt with new_key in the place of old_key.
RenameEntry(parent, old_key, new_key) ==
    Obj([j \in 1..Len(parent.c) |->
            IF parent.c[j].key = old_key
            THEN [key |-> Key(new_key), val |-> parent.c[j].val]
            ELSE parent.c[j]])

update_tree_item_key(st, item_id, new_key) ==
    LET path == st.item_to_path[item_id] IN
    IF path = <<>> THEN Out(st, "error")
    ELSE
    LET old_key == Last(path)
        parent_path == Front(path)
        parent == get_value_by_path(st.data, parent_path)
    IN
    IF Key(new_key) = old_key THEN st
    ELSE IF KeyInRaises(parent)
    THEN Report(Out(st, "raise"), Fails(st.data, parent_path))
    ELSE IF KeyIn(new_key, parent) THEN Out(st, "error")
    ELSE IF IsDict(parent)
    THEN update_paths(
            [st EXCEPT !.data = Replace(@, parent_path,
                                        RenameEntry(parent, old_key, new_key))],
            item_id, old_key, new_key)
    ELSE \* parent[new_key] = parent.pop(old_key)
         IF IsList(parent) /\ old_key.t = "i" /\ old_key.i < Len(parent.c)
         THEN \* the element is popped, then the str index raises TypeError
              Out([st EXCEPT !.data = Replace(@, parent_path,
                                       Arr(RemoveAt(parent.c, old_key.i + 1)))],
                  "raise")
         ELSE Out(st, "raise")

\* The text typed into the entry: raw is the string, toks its JSON tokens.
EntryValue(new_text) ==
    LET v == json_loads(new_text.toks) IN
    IF Raised(v) THEN Str(new_text.raw) ELSE v

set_value_by_path(st, path, new_value) ==
    IF path = <<>> THEN Out(st, "error")
    ELSE
    LET target == Walk(st.data, Front(path))
        p == Last(path)
    IN
    IF Raised(target) THEN Out(st, "error")
    ELSE IF IsDict(target)
    THEN [st EXCEPT !.data = Replace(@, Front(path), DictSet(target, p, new_value))]
    ELSE IF IsList(target) /\ p.t = "i" /\ p.i < Len(target.c)
    THEN [st EXCEPT !.data = Replace(@, Front(path),
                                     Arr([target.c EXCEPT ![p.i + 1] = new_value]))]
    ELSE Out(st, "error")

update_tree_item_value(st, item_id, new_text) ==
    set_value_by_path(st, st.item_to_path[item_id], EntryValue(new_text))

\* column "#0" edits the key, the value column edits the value.
commit_edit(st0, item_id, column, new_text) ==
    LET st == push_undo(st0)
        r == IF column = "#0"
             THEN update_tree_item_key(st, item_id, new_text.raw)
             ELSE update_tree_item_value(st, item_id, new_text)
    IN IF r.out = "raise" THEN r ELSE update_text_editor(r)

----------------------------------------------------------------------------
(* Drag and drop: advanced_move *)

Suffixed(name, n) == name \o "_" \o ToString(n)

\* A choice of key that takes the original key whether it is free or not.
Deconflict_keeps_key(d, orig) == orig

\* new_key = orig; counter = 1; while new_key in d: new_key = orig_counter
Deconflict(d, orig) ==
    IF ~HasKey(d, Key(orig)) THEN orig
    ELSE Suffixed(orig, CHOOSE n \in 1..(Len(d.c) + 1) :
                    /\ ~HasKey(d, Key(Suffixed(orig, n)))
                    /\ \A m \in 1..(n - 1) : HasKey(d, Key(Suffixed(orig, m))))

MovedKey(source_key) == IF source_key.t = "k" THEN source_key.s ELSE "item"

\* A key lookup that never finds the target key.
KeyIndex_not_found(tc, target_key) == Len(tc.c)

\* keys.index(target_key), 0-based; len(keys) when it raises ValueError.
KeyIndex(tc, target_key) ==
    IF HasKey(tc, target_key) THEN KeyPos(tc, target_key) - 1 ELSE Len(tc.c)

\* The part of advanced_move after the source has been popped: st holds the
\* document without the source, spp is the path of the source container.
MoveInsert(st, spp, source_is_list, source_key, source_index, item_value, drop_item, drop_mode) ==
    LET dpath == st.item_to_path[drop_item]
        target_value == get_value_by_path(st.data, dpath)
        direct == IsContainer(target_value)
        no_parent == ~direct /\ drop_item = <<>>
        tc_path == IF direct THEN dpath ELSE st.item_to_path[TreeParent(drop_item)]
        tc == IF direct THEN target_value ELSE get_value_by_path(st.data, tc_path)
        same_container == IsContainer(tc) /\ tc_path = spp
        reported == \/ Fails(st.data, dpath)
                    \/ ~direct /\ ~no_parent /\ Fails(st.data, tc_path)
        Finish(s) == update_text_editor(refresh_tree(s))
    IN
    Report(
    IF no_parent THEN Out(st, "error")
    ELSE IF IsList(tc) THEN
        LET base0 == IF dpath # <<>> /\ CanInt(Last(dpath))
                     THEN IntOf(Last(dpath)) ELSE Len(tc.c)
            base_index == IF same_container /\ source_is_list /\ source_index < base0
                          THEN base0 - 1 ELSE base0
            drop_value == target_value
            want == CASE drop_mode = "insert_before" -> base_index
                      [] drop_mode = "insert_after" -> base_index + 1
                      [] OTHER -> Len(tc.c)
            drop_index == IF want > Len(tc.c) THEN Len(tc.c) ELSE want
        IN
        IF drop_mode = "nest" /\ IsList(drop_value)
        THEN Finish([st EXCEPT !.data =
                        Replace(@, dpath, Arr(Append(drop_value.c, item_value)))])
        ELSE IF drop_mode = "nest" /\ IsDict(drop_value)
        THEN Finish([st EXCEPT !.data =
                        Replace(@, dpath,
                                DictSet(drop_value,
                                        Key(Deconflict(drop_value, MovedKey(source_key))),
                                        item_value))])
        ELSE Finish([st EXCEPT !.data =
                        Replace(@, tc_path,
                                Arr(InsertAt(tc.c, drop_index + 1, item_value)))])
    ELSE IF IsDict(tc) THEN
        IF same_container
        THEN IF dpath = <<>> THEN Out(st, "raise")
             ELSE
             LET j == KeyIndex(tc, Last(dpath))
                 new_index == IF drop_mode = "insert_before" THEN j ELSE j + 1
                 entry == [key |-> source_key, val |-> item_value]
             IN Finish([st EXCEPT !.data =
                          Replace(@, tc_path,
                                  Obj(IF new_index < Len(tc.c)
                                      THEN InsertAt(tc.c, new_index + 1, entry)
                                      ELSE Append(tc.c, entry)))])
        ELSE Finish([st EXCEPT !.data =
                        Replace(@, tc_path,
                                DictSet(tc, Key(Deconflict(tc, MovedKey(source_key))),
                                        item_value))])
    ELSE Out(st, "error"),
    reported)

advanced_move(st0, source_item, drop_item, drop_mode) ==
    LET st == push_undo(st0)
        source_path == st.item_to_path[source_item]
    IN
    IF source_path = <<>> THEN Out(st, "error")
    ELSE
    LET spp == Front(source_path)
        source_key == Last(source_path)
        source_container == get_value_by_path(st.data, spp)
    IN
    IF IsList(source_container)
    THEN IF CanInt(source_key) /\ IntOf(source_key) < Len(source_container.c)
         THEN LET source_index == IntOf(source_key) IN
              MoveInsert([st EXCEPT !.data =
                             Replace(@, spp,
                                     Arr(RemoveAt(source_container.c, source_index + 1)))],
                         spp, TRUE, source_key, source_index,
                         source_container.c[source_index + 1], drop_item, drop_mode)
         ELSE Out(st, "error")
    ELSE IF IsDict(source_container)
    THEN IF HasKey(source_container, source_key)
         THEN MoveInsert([st EXCEPT !.data =
                             Replace(@, spp, DictDel(source_container, source_key))],
                         spp, FALSE, source_key, 0,
                         GetItem(source_container, source_key), drop_item, drop_mode)
         ELSE Out(st, "error")
    ELSE Report(Out(st, "error"), Fails(st.data, spp))

----------------------------------------------------------------------------
(* Context menu: delete, delete and transfer, group, add child *)

Refreshed(st) == update_text_editor(refresh_tree(st))

delete_node_and_contents(st0, selected) ==
    IF Len(selected) # 1 THEN Out(st0, "error")
    ELSE
    LET st == push_undo(st0)
        path == st.item_to_path[selected[1]]
    IN
    IF path = <<>> THEN Out(st, "error")
    ELSE
    LET w == Walk(st.data, Front(path))
        parent_value == get_value_by_path(st.data, Front(path))
        key_to_delete == Last(path)
    IN
    IF IsDict(parent_value)
    THEN IF HasKey(parent_value, key_to_delete)
         THEN Refreshed([st EXCEPT !.data =
                            Replace(@, Front(path), DictDel(parent_value, key_to_delete))])
         ELSE Out(st, "raise")
    ELSE IF IsList(parent_value)
    THEN IF CanInt(key_to_delete) /\ IntOf(key_to_delete) < Len(parent_value.c)
         THEN Refreshed([st EXCEPT !.data =
                            Replace(@, Front(path),
                                    Arr(RemoveAt(parent_value.c, IntOf(key_to_delete) + 1)))])
         ELSE Out(st, "raise")
    ELSE Refreshed(Report(st, Raised(w)))

RECURSIVE DictUpdate(_, _, _)
\* parent.update(node): the entries of node are set in parent one by one.
DictUpdate(parent, node, j) ==
    IF j > Len(node.c) THEN parent
    ELSE DictUpdate(DictSet(parent, node.c[j].key, node.c[j].val), node, j + 1)

ListInsert_overwrites(c, i, x) ==
    IF i >= Len(c) THEN Append(c, x) ELSE [c EXCEPT ![i + 1] = x]

\* list.insert(i, x): an index beyond the end appends.
ListInsert(c, i, x) == IF i >= Len(c) THEN Append(c, x) ELSE InsertAt(c, i + 1, x)

RECURSIVE TransferInsert_at_index(_, _, _, _)
\* A splice that inserts every item at index, without the offset.
TransferInsert_at_index(c, index, node, j) ==
    IF j > Len(node) THEN c
    ELSE TransferInsert_at_index(ListInsert(c, index, node[j]), index, node, j + 1)

RECURSIVE TransferInsert(_, _, _, _)
\* for offset, item in enumerate(node_data): parent_value.insert(index + offset, item)
\* (j = offset + 1)
TransferInsert(c, index, node, j) ==
    IF j > Len(node) THEN c
    ELSE TransferInsert(ListInsert(c, index + j - 1, node[j]), index, node, j + 1)

\* A conflict test that lets every merge through.
KeyConflict_ignored(parent_value, node_data) == FALSE

\* for k in node_data: if k in parent_value: "Key conflict"
KeyConflict(parent_value, node_data) ==
    \E j \in 1..Len(node_data.c) : HasKey(parent_value, node_data.c[j].key)

delete_node_and_transfer(st0, selected) ==
    IF Len(selected) # 1 THEN Out(st0, "error")
    ELSE
    LET st == push_undo(st0)
        path == st.item_to_path[selected[1]]
    IN
    IF path = <<>> THEN Out(st, "error")
    ELSE
    LET node_data == get_value_by_path(st.data, path)
        parent_value == get_value_by_path(st.data, Front(path))
    IN
    Report(
    IF IsDict(parent_value)
    THEN IF ~IsDict(node_data) THEN Out(st, "error")
         ELSE IF KeyConflict(parent_value, node_data) THEN Out(st, "error")
         ELSE Refreshed([st EXCEPT !.data =
                            Replace(@, Front(path),
                                    DictDel(DictUpdate(parent_value, node_data, 1),
                                            Last(path)))])
    ELSE IF IsList(parent_value)
    THEN IF ~IsList(node_data) THEN Out(st, "error")
         ELSE IF ~CanInt(Last(path)) THEN Out(st, "error")
         ELSE LET index == IntOf(Last(path)) IN
              Refreshed([st EXCEPT !.data =
                            Replace(@, Front(path),
                                    Arr(TransferInsert(
                                            RemoveAt(parent_value.c, index + 1),
                                            index, node_data.c, 1)))])
    ELSE Out(st, "error"),
    Fails(st.data, path) \/ Fails(st.data, Front(path)))

\* groups: the parent paths of the selected items in order of first
\* occurrence (the insertion order of the dict), each with its items.
ParentPathOf(st, item) == Front(st.item_to_path[item])

RECURSIVE GroupKeys(_, _, _, _)
GroupKeys(st, selected, j, acc) ==
    IF j > Len(selected) THEN acc
    ELSE LET pp == ParentPathOf(st, selected[j]) IN
         GroupKeys(st, selected, j + 1,
                   IF pp \in Range(acc) THEN acc ELSE Append(acc, pp))

GroupItems(st, selected, pp) ==
    SelectSeq(selected, LAMBDA it : ParentPathOf(st, it) = pp)

RECURSIVE GroupDictItems_keeps_keys(_, _, _, _, _)
\* A loop that copies the selected entries and leaves them in the parent.
GroupDictItems_keeps_keys(st, parent_path, items, j, new_group) ==
    IF j > Len(items) THEN [st |-> st, new_group |-> new_group]
    ELSE LET path == st.item_to_path[items[j]] IN
         IF path = <<>> THEN [st |-> Out(st, "raise"), new_group |-> new_group]
         ELSE GroupDictItems_keeps_keys(st, parent_path, items, j + 1,
                  DictSet(new_group, Last(path), get_value_by_path(st.data, path)))

RECURSIVE GroupDictItems(_, _, _, _, _)
\* The loop over the items of a dict partition: each value is copied into
\* new_group and its key deleted from the parent.  The result holds the
\* state and new_group; out = "raise" when an item raised.
GroupDictItems(st, parent_path, items, j, new_group) ==
    IF j > Len(items) THEN [st |-> st, new_group |-> new_group]
    ELSE
    LET path == st.item_to_path[items[j]] IN
    IF path = <<>> THEN [st |-> Out(st, "raise"), new_group |-> new_group]
    ELSE
    LET key == Last(path)
        w == Walk(st.data, path)
        ng == DictSet(new_group, key, get_value_by_path(st.data, path))
        parent_value == get_value_by_path(st.data, parent_path)
        st1 == Report(st, Raised(w))
    IN
    IF ~HasKey(parent_value, key) THEN [st |-> Out(st1, "raise"), new_group |-> ng]
    ELSE GroupDictItems([st1 EXCEPT !.data =
                            Replace(@, parent_path, DictDel(parent_value, key))],
                        parent_path, items, j + 1, ng)

RECURSIVE Insort(_, _)
Insort(s, x) ==
    IF s = <<>> THEN <<x>>
    ELSE IF x <= Head(s) THEN <<x>> \o s ELSE <<Head(s)>> \o Insort(Tail(s), x)

RECURSIVE GroupIndices(_, _, _, _)
\* indices: int(path[-1]) of every item for which it does not raise, sorted.
GroupIndices(st, items, j, acc) ==
    IF j > Len(items) THEN acc
    ELSE LET path == st.item_to_path[items[j]] IN
         GroupIndices(st, items, j + 1,
                      IF path # <<>> /\ CanInt(Last(path))
                      THEN Insort(acc, IntOf(Last(path))) ELSE acc)

RECURSIVE GroupPop_appends(_, _, _, _)
\* A collection that appends each popped value instead of putting it first.
GroupPop_appends(c, indices, j, new_group) ==
    IF j = 0 THEN [c |-> c, new_group |-> new_group, raised |-> FALSE]
    ELSE IF indices[j] >= Len(c)
    THEN [c |-> c, new_group |-> new_group, raised |-> TRUE]
    ELSE GroupPop_appends(RemoveAt(c, indices[j] + 1), indices, j - 1,
                          Append(new_group, c[indices[j] + 1]))

RECURSIVE GroupPop(_, _, _, _)
\* for idx in reversed(indices): new_group.insert(0, parent_value.pop(idx))
GroupPop(c, indices, j, new_group) ==
    IF j = 0 THEN [c |-> c, new_group |-> new_group, raised |-> FALSE]
    ELSE IF indices[j] >= Len(c)
    THEN [c |-> c, new_group |-> new_group, raised |-> TRUE]
    ELSE GroupPop(RemoveAt(c, indices[j] + 1), indices, j - 1,
                  <<c[indices[j] + 1]>> \o new_group)

RECURSIVE GroupLoop(_, _, _, _, _)
GroupLoop(st, selected, parents, j, group_name) ==
    IF j > Len(parents) THEN Refreshed(st)
    ELSE
    LET parent_path == parents[j]
        items == GroupItems(st, selected, parent_path)
        w == Walk(st.data, parent_path)
        parent_value == get_value_by_path(st.data, parent_path)
    IN
    IF IsDict(parent_value) THEN
        LET r == GroupDictItems(st, parent_path, items, 1, Obj(<<>>)) IN
        IF r.st.out = "raise" THEN r.st
        ELSE LET pv == get_value_by_path(r.st.data, parent_path) IN
             GroupLoop([r.st EXCEPT !.data =
                           Replace(@, parent_path,
                                   DictSet(pv, Key(Deconflict(pv, group_name)),
                                           r.new_group))],
                       selected, parents, j + 1, group_name)
    ELSE IF IsList(parent_value) THEN
        LET indices == GroupIndices(st, items, 1, <<>>) IN
        IF indices = <<>> THEN GroupLoop(st, selected, parents, j + 1, group_name)
        ELSE LET r == GroupPop(parent_value.c, indices, Len(indices), <<>>) IN
             IF r.raised
             THEN Out([st EXCEPT !.data = Replace(@, parent_path, Arr(r.c))], "raise")
             ELSE GroupLoop([st EXCEPT !.data =
                               Replace(@, parent_path,
                                       Arr(ListInsert(r.c, indices[1],
                                             Obj(<<KV(group_name, Arr(r.new_group))>>))))],
                            selected, parents, j + 1, group_name)
    ELSE Report(Out(st, "error"), Raised(w))

\* group_name = "" stands for a cancelled or empty dialog.
group_nodes(st0, selected, group_name) ==
    IF Len(selected) < 2 THEN Out(st0, "error")
    ELSE IF group_name = "" THEN st0
    ELSE LET st == push_undo(st0) IN
         GroupLoop(st, selected, GroupKeys(st, selected, 1, <<>>), 1, group_name)

\* new_key = "" stands for a cancelled or empty dialog.
add_child_node(st0, selected, new_key) ==
    IF Len(selected) > 1 THEN Out(st0, "error")
    ELSE
    LET parent_path == IF selected = <<>> THEN <<>> ELSE st0.item_to_path[selected[1]]
        w == Walk(st0.data, parent_path)
        parent_value == get_value_by_path(st0.data, parent_path)
    IN
    IF IsDict(parent_value)
    THEN IF new_key = "" THEN Out(st0, "cancel")
         ELSE IF HasKey(parent_value, Key(new_key)) THEN Out(st0, "error")
         ELSE Refreshed([push_undo(st0) EXCEPT !.data =
                            Replace(@, parent_path,
                                    DictSet(parent_value, Key(new_key), Str("")))])
    ELSE IF IsList(parent_value)
    THEN Refreshed([push_undo(st0) EXCEPT !.data =
                       Replace(@, parent_path, Arr(Append(parent_value.c, Str(""))))])
    ELSE Report(Out(st0, "error"), Raised(w))

----------------------------------------------------------------------------
(* Text view and file *)

DARK_BG == "#2e2e2e"
INVALID_BG == "#ffcccc"

update_from_text_auto_snapshots(st, content) ==
    LET new_data == json_loads(content)
        st1 == push_undo([st EXCEPT !.text = content])
    IN
    IF Raised(new_data) THEN Out([st1 EXCEPT !.text_bg = INVALID_BG], "error")
    ELSE [refresh_tree([st1 EXCEPT !.data = new_data]) EXCEPT !.text_bg = DARK_BG]

\* content is what the text widget holds when the commit runs.
update_from_text_auto(st, content) ==
    LET new_data == json_loads(content)
        st1 == [st EXCEPT !.text = content]
    IN
    IF Raised(new_data) THEN Out([st1 EXCEPT !.text_bg = INVALID_BG], "error")
    ELSE [refresh_tree([st1 EXCEPT !.data = new_data]) EXCEPT !.text_bg = DARK_BG]

\* load_json: content is the text of the chosen file.
load_json(st, content) ==
    LET new_data == json_loads(content) IN
    IF Raised(new_data) THEN Out(st, "error")
    ELSE refresh_tree(update_text_editor([st EXCEPT !.data = new_data]))

----------------------------------------------------------------------------
(* Bounds and inputs *)

\* Handler calls explored from the freshly constructed editor.
MaxSteps == 3
\* Handler calls explored after a document of Docs has been opened.
MaxLoadedSteps == 1
\* Largest selection handed to a context-menu handler.
MaxSelect == 3

\* Documents opened from a file in InitLoaded.
Docs == {
    Obj(<<KV("a", Num(1)), KV("b", Num(2))>>),
    Obj(<<KV("a", Obj(<<KV("b", Num(1))>>)), KV("c", Num(2))>>),
    Arr(<<Num(1), Num(2)>>),
    Arr(<<Num(5), Arr(<<Num(1), Num(2)>>)>>),
    Arr(<<Arr(<<Num(1)>>), Num(2), Obj(<<KV("a", Num(3))>>)>>),
    Obj(<<KV("a", Arr(<<Num(1), Str("x")>>)), KV("g", Obj(<<>>))>>),
    Obj(<<KV("x", Num(1)), KV("y", Num(2)), KV("z", Num(3))>>),
    Obj(<<KV("a", Obj(<<KV("b", Num(1)), KV("b_1", Num(5))>>)), KV("b", Num(2))>>)
}

\* Texts typed into the text view or read from a file: three documents, a
\* text that repeats a key, and two texts that are not JSON.
Texts == {
    json_dumps(Obj(<<KV("a", Num(1))>>)),
    json_dumps(Arr(<<Num(1)>>)),
    json_dumps(Arr(<<Arr(<<Num(1)>>)>>)),
    <<P("{"), StrTok("a"), P(":"), NumTok(1), P(","),
      StrTok("a"), P(":"), NumTok(2), P("}")>>,
    <<P("{"), StrTok("a"), P(":")>>,
    <<>>
}

\* Texts typed into a tree cell: as a key they are taken literally, as a
\* value they are parsed first.
Word(s) == [raw |-> s, toks |-> <<[t |-> "word", s |-> s]>>]
NewKeys == {Word("a"), Word("b")}
NewValues == {[raw |-> "7", toks |-> <<NumTok(7)>>],
              Word("x"),
              [raw |-> "[]", toks |-> <<P("["), P("]")>>]}
ChildKeys == {"a", "k", ""}
GroupNames == {"g", "z"}
DropModes == {"insert_before", "insert_after", "nest"}

Items == Range(tree)

\* tree.selection(): the selected items in display order.
Selection(S) == SelectSeq(tree, LAMBDA it : it \in S)
Selections(n) == {Selection(S) : S \in {T \in SUBSET Items : Cardinality(T) <= n}}

----------------------------------------------------------------------------
(* State machine *)

\* What the last handler call was: the handler, its outcome, the
\* document and stacks it started from and its arguments (items: the edited
\* item, the dragged and the drop item, or the selected items; paths: their
\* cached paths; arg: drop mode, new key, entry text or group name;
\* content: the committed or loaded text).
Record(op, r, items, arg, content) ==
    [op |-> op, out |-> r.out, reported |-> r.reported, data |-> data, undo_stack |-> undo_stack,
     redo_stack |-> redo_stack, items |-> items,
     paths |-> [j \in 1..Len(items) |-> item_to_path[items[j]]], arg |-> arg,
     content |-> content]

Becomes(r) ==
    /\ budget' = budget - 1
    /\ data' = r.data
    /\ undo_stack' = r.undo_stack
    /\ redo_stack' = r.redo_stack
    /\ tree' = r.tree
    /\ item_to_path' = r.item_to_path
    /\ text' = r.text
    /\ text_bg' = r.text_bg

Constructed ==
    /\ data = Obj(<<>>)
    /\ undo_stack = <<>>
    /\ redo_stack = <<>>
    /\ tree = <<>>
    /\ item_to_path = <<>>
    /\ text = <<>>
    /\ text_bg = DARK_BG
    /\ last = [op |-> "init", out |-> "ok", reported |-> FALSE, data |-> Obj(<<>>), undo_stack |-> <<>>,
               redo_stack |-> <<>>, items |-> <<>>, paths |-> <<>>, arg |-> "",
               content |-> <<>>]

InitConstructed == Constructed /\ budget = MaxSteps

\* The editor after File > Open of a document of Docs.
InitLoaded ==
    \E d \in Docs :
        LET r == load_json([data |-> Obj(<<>>), undo_stack |-> <<>>,
                            redo_stack |-> <<>>, tree |-> <<>>, item_to_path |-> <<>>,
                            text |-> <<>>, text_bg |-> DARK_BG, out |-> "ok",
                            reported |-> FALSE],
                           json_dumps(d))
        IN /\ data = r.data
           /\ undo_stack = <<>>
           /\ redo_stack = <<>>
           /\ tree = r.tree
           /\ item_to_path = r.item_to_path
           /\ text = r.text
           /\ text_bg = DARK_BG
           /\ last = [op |-> "load", out |-> "ok", reported |-> FALSE, data |-> Obj(<<>>),
                      undo_stack |-> <<>>, redo_stack |-> <<>>, items |-> <<>>,
                      paths |-> <<>>, arg |-> "", content |-> <<>>]
           /\ budget = MaxLoadedSteps

CommitEditKey ==
    /\ budget > 0
    /\ \E item \in Items, new_text \in NewKeys :
           \E r \in {commit_edit(State, item, "#0", new_text)} :
           /\ Becomes(r)
           /\ last' = Record("rename", r, <<item>>, new_text.raw, <<>>)

CommitEditValue ==
    /\ budget > 0
    /\ \E item \in Items, new_text \in NewValues :
           \E r \in {commit_edit(State, item, "value", new_text)} :
           /\ Becomes(r)
           /\ last' = Record("set_value", r, <<item>>, new_text.raw, new_text.toks)

\* on_release: the drag ends on another row.
AdvancedMove ==
    /\ budget > 0
    /\ \E source_item \in Items, drop_item \in Items, drop_mode \in DropModes :
           /\ drop_item # source_item
           /\ \E r \in {advanced_move(State, source_item, drop_item, drop_mode)} :
              /\ Becomes(r)
              /\ last' = Record("move", r, <<source_item, drop_item>>, drop_mode, <<>>)

DeleteNodeAndContents ==
    /\ budget > 0
    /\ \E selected \in Selections(2) :
           \E r \in {delete_node_and_contents(State, selected)} :
           /\ Becomes(r)
           /\ last' = Record("delete", r, selected, "", <<>>)

DeleteNodeAndTransfer ==
    /\ budget > 0
    /\ \E selected \in Selections(2) :
           \E r \in {delete_node_and_transfer(State, selected)} :
           /\ Becomes(r)
           /\ last' = Record("transfer", r, selected, "", <<>>)

GroupNodes ==
    /\ budget > 0
    /\ \E selected \in Selections(MaxSelect), group_name \in GroupNames :
           \E r \in {group_nodes(State, selected, group_name)} :
           /\ Becomes(r)
           /\ last' = Record("group", r, selected, group_name, <<>>)

AddChildNode ==
    /\ budget > 0
    /\ \E selected \in Selections(2), new_key \in ChildKeys :
           \E r \in {add_child_node(State, selected, new_key)} :
           /\ Becomes(r)
           /\ last' = Record("add_child", r, selected, new_key, <<>>)

\* The text view is edited and, half a second later, committed.
OnTextChange ==
    /\ budget > 0
    /\ \E content \in Texts :
           \E r \in {update_from_text_auto(State, content)} :
           /\ Becomes(r)
           /\ last' = Record("text", r, <<>>, "", content)

\* "Update Visual": the text view is committed as it stands.
UpdateFromTextManual ==
    /\ budget > 0
    /\ \E r \in {update_from_text_auto(State, text)} :
       /\ Becomes(r)
       /\ last' = Record("text", r, <<>>, "", text)

LoadJson ==
    /\ budget > 0
    /\ \E content \in Texts :
           \E r \in {load_json(State, content)} :
           /\ Becomes(r)
           /\ last' = Record("load", r, <<>>, "", content)

RefreshTree ==
    /\ budget > 0
    /\ \E r \in {refresh_tree(State)} :
       /\ Becomes(r)
       /\ last' = Record("refresh", r, <<>>, "", <<>>)

Undo ==
    /\ budget > 0
    /\ \E r \in {undo(State)} :
       /\ Becomes(r)
       /\ last' = Record("undo", r, <<>>, "", <<>>)

Redo ==
    /\ budget > 0
    /\ \E r \in {redo(State)} :
       /\ Becomes(r)
       /\ last' = Record("redo", r, <<>>, "", <<>>)

Next ==
    \/ CommitEditKey
    \/ CommitEditValue
    \/ AdvancedMove
    \/ DeleteNodeAndContents
    \/ DeleteNodeAndTransfer
    \/ GroupNodes
    \/ AddChildNode
    \/ OnTextChange
    \/ UpdateFromTextManual
    \/ LoadJson
    \/ RefreshTree
    \/ Undo
    \/ Redo

\* The editor starts freshly constructed, or with a document just opened.
Init == InitConstructed \/ InitLoaded

Spec == Init /\ [][Next]_vars

----------------------------------------------------------------------------
(* Vocabulary of the properties *)

Mutating == {"rename", "set_value", "add_child", "delete", "transfer", "move",
             "group"}
Succeeded == last.out = "ok"
Failed == last.out \in {"error", "raise"}
StacksUntouched ==
    undo_stack = last.undo_stack /\ redo_stack = last.redo_stack
DocumentUnchanged == data = last.data

\* Every path of document d.
PathsIn(d) == Range(insert_items(d, <<>>))
Resolves(d, path) == ~Raised(Walk(d, path))


----------------------------------------------------------------------------
(* Undo history *)

\* C1: a mutating handler that completes without error has pushed exactly
\* one snapshot, equal to the document it started from, and an undo right
\* after it makes the live document equal to that document again.
C1_SnapshotBeforeMutation ==
    (last.op \in Mutating /\ Succeeded) =>
        /\ undo_stack = Append(last.undo_stack, last.data)
        /\ model_undo(State).data = last.data

\* A successful mutating call that changed the document.
C1_Witness ==
    /\ last.op \in Mutating
    /\ Succeeded
    /\ data # last.data

\* C2: a mutating handler that fails leaves undo_stack and redo_stack as
\* they were before the call.
C2_FailedCallLeavesStacks ==
    (last.op \in Mutating /\ Failed) => StacksUntouched

\* C3: a move that does not complete successfully leaves the document as it
\* was before the call.
C3_FailedMoveLeavesDocument ==
    (last.op = "move" /\ Failed) => DocumentUnchanged

\* C4: a grouping that fails in any partition leaves the document as it was
\* before the call.
C4_FailedGroupLeavesDocument ==
    (last.op = "group" /\ Failed) => DocumentUnchanged

\* The container that holds the node at a non-empty path of document d.
ParentIn(d, path) == get_value_by_path(d, Front(path))

\* C5: renaming an element of an Array, or renaming a key to another key
\* that its parent Object already holds, fails and leaves the document
\* unchanged.
C5_RenameRejected ==
    (/\ last.op = "rename"
     /\ last.paths[1] # <<>>
     /\ Resolves(last.data, last.paths[1])
     /\ \/ IsList(ParentIn(last.data, last.paths[1]))
        \/ /\ IsDict(ParentIn(last.data, last.paths[1]))
           /\ Key(last.arg) # Last(last.paths[1])
           /\ HasKey(ParentIn(last.data, last.paths[1]), Key(last.arg)))
    => (Failed /\ DocumentUnchanged)

\* C6: a rename, move, delete or delete-and-transfer aimed at the root, and
\* a grouping whose selection contains the root, fail and leave the document
\* unchanged.
C6_RootIsProtected ==
    (\/ last.op \in {"rename", "move"} /\ last.paths[1] = <<>>
     \/ last.op \in {"delete", "transfer"} /\ last.paths = << <<>> >>
     \/ /\ last.op = "group"
        /\ Len(last.paths) >= 2
        /\ \E j \in 1..Len(last.paths) : last.paths[j] = <<>>)
    => (Failed /\ DocumentUnchanged)

\* C7: a change of the live document by anything other than undo and redo
\* leaves redo_stack empty.
C7_ChangeClearsRedo ==
    (last.op \notin {"undo", "redo"} /\ data # last.data) => redo_stack = <<>>

\* C8: undo with an empty undo_stack and redo with an empty redo_stack change
\* nothing; otherwise undo installs the top of undo_stack, removes it and
\* pushes the former document onto redo_stack, and redo does the symmetric
\* step; a redo right after an undo restores document and stacks, and
\* neither changes len(undo_stack) + len(redo_stack).
C8_UndoRedoSteps ==
    /\ (last.op = "undo" /\ last.undo_stack = <<>>) =>
            (DocumentUnchanged /\ StacksUntouched)
    /\ (last.op = "redo" /\ last.redo_stack = <<>>) =>
            (DocumentUnchanged /\ StacksUntouched)
    /\ (last.op = "undo" /\ last.undo_stack # <<>>) =>
            /\ data = Last(last.undo_stack)
            /\ undo_stack = Front(last.undo_stack)
            /\ redo_stack = Append(last.redo_stack, last.data)
            /\ model_redo(State).data = last.data
            /\ model_redo(State).undo_stack = last.undo_stack
            /\ model_redo(State).redo_stack = last.redo_stack
    /\ (last.op = "redo" /\ last.redo_stack # <<>>) =>
            /\ data = Last(last.redo_stack)
            /\ redo_stack = Front(last.redo_stack)
            /\ undo_stack = Append(last.undo_stack, last.data)
    /\ (last.op \in {"undo", "redo"}) =>
            Len(undo_stack) + Len(redo_stack)
                = Len(last.undo_stack) + Len(last.redo_stack)

\* An undo that took a snapshot off a stack of two and changed the document.
C8_Witness ==
    /\ last.op = "undo"
    /\ Len(last.undo_stack) >= 2
    /\ data # last.data

----------------------------------------------------------------------------
(* Move *)

\* A move whose cached source and target paths address two nodes of the
\* document, neither inside the other.
MoveOf(modes) ==
    /\ last.op = "move"
    /\ last.arg \in modes
    /\ last.paths[1] # <<>>
    /\ Resolves(last.data, last.paths[1])
    /\ Resolves(last.data, last.paths[2])
    /\ ~IsPrefix(last.paths[1], last.paths[2])
    /\ ~IsPrefix(last.paths[2], last.paths[1])

MovedValue == Walk(last.data, last.paths[1])
TargetValue == Walk(last.data, last.paths[2])

\* The children of a container as values.
Children(v) == IF IsDict(v) THEN [j \in 1..Len(v.c) |-> v.c[j].val] ELSE v.c

\* In document d some container holds a and b as neighbouring children.
Siblings(d, a, b) ==
    \E q \in PathsIn(d) :
        LET v == Walk(d, q) IN
        /\ IsContainer(v)
        /\ \E j \in 1..(Len(v.c) - 1) :
              {Children(v)[j], Children(v)[j + 1]} = {a, b}

\* C9: a successful move with mode insert_before or insert_after onto a
\* container leaves the target as it was and makes the moved node a sibling
\* next to it, not a child of it.
C9_InsertBesideContainer ==
    (MoveOf({"insert_before", "insert_after"}) /\ IsContainer(TargetValue)
        /\ Succeeded)
    => Siblings(data, MovedValue, TargetValue)

\* The list c with the element at 0-based index i taken out.
Without(c, i) == RemoveAt(c, i + 1)

\* C10: a move with mode insert_before (insert_after) onto a Scalar element
\* of an Array A, the source being an element of A or a node outside A,
\* leaves A with the moved value right before (after) the target element and
\* the other elements in their order.
C10_InsertBesideArrayElement ==
    (/\ MoveOf({"insert_before", "insert_after"})
     /\ ~IsContainer(TargetValue)
     /\ IsList(ParentIn(last.data, last.paths[2]))
     /\ \/ Front(last.paths[1]) = Front(last.paths[2])
        \/ ~IsPrefix(Front(last.paths[2]), last.paths[1]))
    => LET A == ParentIn(last.data, last.paths[2]).c
           ti == Last(last.paths[2]).i
           inA == Front(last.paths[1]) = Front(last.paths[2])
           si == Last(last.paths[1]).i
           rest == IF inA THEN Without(A, si) ELSE A
           at == IF inA /\ si < ti THEN ti - 1 ELSE ti
           expected == IF last.arg = "insert_before"
                       THEN InsertAt(rest, at + 1, MovedValue)
                       ELSE InsertAt(rest, at + 2, MovedValue)
       IN \E q \in PathsIn(data) : Walk(data, q) = Arr(expected)

\* The Object obj with the entry of key skey taken out and put back right
\* before (after) the entry of key tkey.
Reinserted(obj, skey, tkey, mode) ==
    LET e == obj.c[KeyPos(obj, skey)]
        rest == RemoveAt(obj.c, KeyPos(obj, skey))
        j == CHOOSE j \in 1..Len(rest) : rest[j].key = tkey
    IN Obj(InsertAt(rest, IF mode = "insert_before" THEN j ELSE j + 1, e))

\* A move beside a Scalar key of the Object that also holds the source.
SameObjectMove ==
    /\ MoveOf({"insert_before", "insert_after"})
    /\ IsDict(ParentIn(last.data, last.paths[1]))
    /\ Front(last.paths[1]) = Front(last.paths[2])
    /\ ~IsContainer(TargetValue)

\* C11: a move with mode insert_before (insert_after) between two keys of
\* one Object, the target a Scalar, succeeds and leaves the document as it
\* was except that the source entry, key and value, now stands right before
\* (after) the target key in that Object.
C11_ReorderInObject ==
    SameObjectMove =>
        /\ Succeeded
        /\ data = Replace(last.data, Front(last.paths[1]),
                          Reinserted(ParentIn(last.data, last.paths[1]),
                                     Last(last.paths[1]), Last(last.paths[2]),
                                     last.arg))

\* A key of a three-key Object moved to another place of that Object.
C11_Witness ==
    /\ SameObjectMove
    /\ Len(ParentIn(last.data, last.paths[1]).c) >= 3
    /\ data # last.data

\* A move with mode nest of a keyed entry of an Object onto a node outside
\* the source's subtree.
NestFromObject ==
    /\ last.op = "move"
    /\ last.arg = "nest"
    /\ last.paths[1] # <<>>
    /\ Resolves(last.data, last.paths[1])
    /\ Resolves(last.data, last.paths[2])
    /\ ~IsPrefix(last.paths[1], last.paths[2])
    /\ IsDict(ParentIn(last.data, last.paths[1]))

\* The document before the move with the source entry taken out of its
\* Object.
SourceDetached ==
    Replace(last.data, Front(last.paths[1]),
            DictDel(ParentIn(last.data, last.paths[1]), Last(last.paths[1])))

\* Object d with value v appended under key orig, or under orig_N for the
\* smallest free N >= 1 when orig is taken.
AppendedUnder(d, orig, v) ==
    LET taken(n) == HasKey(d, Key(Suffixed(orig, n)))
        name == IF ~HasKey(d, Key(orig)) THEN orig
                ELSE Suffixed(orig, CHOOSE n \in 1..(Len(d.c) + 1) :
                                  ~taken(n) /\ \A m \in 1..(n - 1) : taken(m))
    IN Obj(Append(d.c, KV(name, v)))

\* C12: a move with mode nest onto an Object outside the source's subtree
\* (the source's parent and the root included) succeeds and leaves the moved
\* value as the last entry of the target, under its original key or the
\* first free key_N, everything else of the document unchanged.
C12_NestIntoObject ==
    (NestFromObject /\ IsDict(TargetValue)) =>
        /\ Succeeded
        /\ data = Replace(SourceDetached, last.paths[2],
                          AppendedUnder(Walk(SourceDetached, last.paths[2]),
                                        Last(last.paths[1]).s, MovedValue))

\* A move beside a Scalar key of an Object other than the one that holds the
\* source key.
CrossObjectMove ==
    /\ MoveOf({"insert_before", "insert_after"})
    /\ IsDict(ParentIn(last.data, last.paths[1]))
    /\ IsDict(ParentIn(last.data, last.paths[2]))
    /\ Front(last.paths[1]) # Front(last.paths[2])
    /\ ~IsContainer(TargetValue)

\* C13: a move with mode insert_before or insert_after of a key of an Object
\* beside a Scalar key of a different Object D succeeds, removes the key from
\* the source Object and appends the moved value at the end of D under its
\* original key, or under the first free key_N when D holds that key; the
\* rest of the document is unchanged.
C13_MoveToOtherObject ==
    CrossObjectMove =>
        /\ Succeeded
        /\ data = Replace(SourceDetached, Front(last.paths[2]),
                          AppendedUnder(Walk(SourceDetached, Front(last.paths[2])),
                                        Last(last.paths[1]).s, MovedValue))

\* Such a move where D held the source's key and the key_1 after it.
C13_Witness ==
    /\ CrossObjectMove
    /\ HasKey(ParentIn(last.data, last.paths[2]), Last(last.paths[1]))
    /\ HasKey(ParentIn(last.data, last.paths[2]),
              Key(Suffixed(Last(last.paths[1]).s, 1)))
    /\ last.arg = "insert_before"
    /\ data # last.data

\* C14: a move with mode nest onto an Array, the source outside the target's
\* subtree, succeeds and leaves the target Array with its former elements
\* followed by the moved value.
C14_NestIntoArray ==
    (MoveOf({"nest"}) /\ IsList(TargetValue)) =>
        /\ Succeeded
        /\ \E q \in PathsIn(data) :
              Walk(data, q) = Arr(Append(TargetValue.c, MovedValue))

----------------------------------------------------------------------------
(* Delete and transfer *)

\* A delete-and-transfer of the one selected node, which is not the root.
TransferOf ==
    /\ last.op = "transfer"
    /\ Len(last.paths) = 1
    /\ last.paths[1] # <<>>
    /\ Resolves(last.data, last.paths[1])

TransferNode == Walk(last.data, last.paths[1])
TransferParent == ParentIn(last.data, last.paths[1])

\* The sequence c with the one element at 0-based index i replaced by the
\* elements of r.
Spliced(c, i, r) == SubSeq(c, 1, i) \o r \o SubSeq(c, i + 2, Len(c))

\* C15: delete-and-transfer of an Object under an Object, no key of it being
\* a key of the parent, succeeds and leaves the parent with the removed
\* Object's entries, in their order, at the place of the removed key.
C15_TransferKeepsPosition ==
    (/\ TransferOf
     /\ IsDict(TransferNode)
     /\ IsDict(TransferParent)
     /\ \A j \in 1..Len(TransferNode.c) :
            ~HasKey(TransferParent, TransferNode.c[j].key))
    => /\ Succeeded
       /\ data = Replace(last.data, Front(last.paths[1]),
                         Obj(Spliced(TransferParent.c,
                                     KeyPos(TransferParent, Last(last.paths[1])) - 1,
                                     TransferNode.c)))

\* C16: delete-and-transfer of an Array that is an element of an Array
\* succeeds and leaves the parent with the removed Array's elements, in their
\* order, in place of the removed element (nothing in its place when the
\* removed Array is empty).
C16_TransferSplicesArray ==
    (TransferOf /\ IsList(TransferNode) /\ IsList(TransferParent)) =>
        /\ Succeeded
        /\ data = Replace(last.data, Front(last.paths[1]),
                          Arr(Spliced(TransferParent.c, Last(last.paths[1]).i,
                                      TransferNode.c)))

\* An Array of two elements spliced into its parent.
C16_Witness ==
    /\ TransferOf
    /\ IsList(TransferNode)
    /\ IsList(TransferParent)
    /\ Len(TransferNode.c) >= 2
    /\ Len(data.c) = 3

\* Some key of the node to transfer is a key of its parent Object.
TransferCollides ==
    /\ IsDict(TransferNode)
    /\ IsDict(TransferParent)
    /\ \E j \in 1..Len(TransferNode.c) :
          HasKey(TransferParent, TransferNode.c[j].key)

\* The node is neither an Object under an Object nor an Array under an Array.
TransferKindsDiffer ==
    /\ ~(IsDict(TransferNode) /\ IsDict(TransferParent))
    /\ ~(IsList(TransferNode) /\ IsList(TransferParent))

\* C17: delete-and-transfer of an Object that shares a key with its parent
\* Object, of a node whose kind is not its parent's kind, or of a Scalar
\* fails and leaves the document unchanged.
C17_TransferRejected ==
    (TransferOf /\ (TransferCollides \/ TransferKindsDiffer)) =>
        (Failed /\ DocumentUnchanged)

\* A rejected transfer of an Object that shares a key with its parent.
C17_Witness ==
    TransferOf /\ TransferCollides /\ Failed

----------------------------------------------------------------------------
(* Grouping *)

\* A grouping of two or more distinct children of one container.
GroupOf ==
    /\ last.op = "group"
    /\ Len(last.paths) >= 2
    /\ \A j \in 1..Len(last.paths) :
          /\ last.paths[j] # <<>>
          /\ Resolves(last.data, last.paths[j])
          /\ Front(last.paths[j]) = Front(last.paths[1])
    /\ \A j, k \in 1..Len(last.paths) : j # k => last.paths[j] # last.paths[k]

GroupParent == ParentIn(last.data, last.paths[1])
GroupSelected == {Last(last.paths[j]) : j \in 1..Len(last.paths)}

\* C18: a grouping of two or more keys of one Object succeeds, removes the
\* selected entries from the parent and appends one Object under the group
\* name (or the first free name_N when the name is still a key of the
\* parent) that holds the removed entries in the order they had in the
\* parent; the unselected entries keep their order and the rest of the
\* document is unchanged.
C18_GroupKeys ==
    (GroupOf /\ IsDict(GroupParent)) =>
        /\ Succeeded
        /\ data = Replace(last.data, Front(last.paths[1]),
                    AppendedUnder(
                        Obj(SelectSeq(GroupParent.c,
                                      LAMBDA e : e.key \notin GroupSelected)),
                        last.arg,
                        Obj(SelectSeq(GroupParent.c,
                                      LAMBDA e : e.key \in GroupSelected))))

\* Two keys of a three-key Object grouped under the name of the third.
C18_Witness ==
    /\ GroupOf
    /\ IsDict(GroupParent)
    /\ Len(GroupParent.c) = 3
    /\ HasKey(GroupParent, Key(last.arg))
    /\ Key(last.arg) \notin GroupSelected
    /\ Succeeded

RECURSIVE AtIndices(_, _, _)
\* The elements of c from position j on whose 0-based index is in S.
AtIndices(c, S, j) ==
    IF j > Len(c) THEN <<>>
    ELSE (IF Idx(j - 1) \in S THEN <<c[j]>> ELSE <<>>) \o AtIndices(c, S, j + 1)

GroupRest == {Idx(i) : i \in 0..(Len(GroupParent.c) - 1)} \ GroupSelected
GroupFirst == CHOOSE i \in 0..Len(GroupParent.c) :
                 /\ Idx(i) \in GroupSelected
                 /\ \A k \in 0..(i - 1) : Idx(k) \notin GroupSelected

\* C19: a grouping of two or more elements of one Array succeeds, removes
\* the selected elements and puts one Object {name: collected} where the
\* first of them stood, collected being the removed values in the order of
\* their indices; the other elements keep their order and the rest of the
\* document is unchanged.
C19_GroupElements ==
    (GroupOf /\ IsList(GroupParent)) =>
        /\ Succeeded
        /\ data = Replace(last.data, Front(last.paths[1]),
                    Arr(InsertAt(AtIndices(GroupParent.c, GroupRest, 1),
                                 GroupFirst + 1,
                                 Obj(<<KV(last.arg,
                                          Arr(AtIndices(GroupParent.c,
                                                        GroupSelected, 1)))>>))))

\* The first and the last of three elements grouped.
C19_Witness ==
    /\ GroupOf
    /\ IsList(GroupParent)
    /\ Len(GroupParent.c) = 3
    /\ GroupSelected = {Idx(0), Idx(2)}
    /\ Succeeded

----------------------------------------------------------------------------
(* Rename *)

\* A rename, completed without error, of a key of an Object.
RenamedKey ==
    /\ last.op = "rename"
    /\ Succeeded
    /\ last.paths[1] # <<>>
    /\ Resolves(last.data, last.paths[1])
    /\ IsDict(ParentIn(last.data, last.paths[1]))

\* C20: after a successful rename of a key of an Object the document is the
\* one before the call except that, in the parent, the new key stands where
\* the old key stood, bound to the same value.
C20_RenameKeepsPosition ==
    RenamedKey =>
        LET parent == ParentIn(last.data, last.paths[1])
            pos == KeyPos(parent, Last(last.paths[1]))
        IN data = Replace(last.data, Front(last.paths[1]),
                          Obj([parent.c EXCEPT
                                  ![pos] = [key |-> Key(last.arg), val |-> @.val]]))

\* A rename of a key that is not the last of its Object and holds a
\* container.
C20_Witness ==
    /\ RenamedKey
    /\ data # last.data
    /\ IsContainer(Walk(last.data, last.paths[1]))
    /\ KeyPos(ParentIn(last.data, last.paths[1]), Last(last.paths[1]))
          < Len(ParentIn(last.data, last.paths[1]).c)

----------------------------------------------------------------------------
(* Set value, add child, delete *)

\* The value the entry text stands for: its JSON value, or the text itself
\* as a string when it is not JSON.
TypedValue ==
    LET v == json_loads(last.content) IN
    IF Raised(v) THEN Str(last.arg) ELSE v

\* C21: a value edit on a path that resolves, the root path included,
\* succeeds and leaves the document as it was except that the node at the
\* path is the value the entry text stands for.
C21_SetValueNeverFails ==
    (last.op = "set_value" /\ Resolves(last.data, last.paths[1])) =>
        /\ Succeeded
        /\ data = Replace(last.data, last.paths[1], TypedValue)

\* An add-child call with at most one item selected (none selected stands
\* for the root) whose parent path resolves.
AddChildOf ==
    /\ last.op = "add_child"
    /\ Len(last.paths) <= 1
    /\ Resolves(last.data, IF last.paths = <<>> THEN <<>> ELSE last.paths[1])

AddChildPath == IF last.paths = <<>> THEN <<>> ELSE last.paths[1]
AddChildParent == Walk(last.data, AddChildPath)
OneSnapshotPushed ==
    /\ undo_stack = Append(last.undo_stack, last.data)
    /\ redo_stack = <<>>

\* C22: add-child on an Object with a key it does not hold appends the key
\* bound to "" and pushes one snapshot; with a key it holds it fails, and
\* with no key it does nothing, document and stacks unchanged; on an Array
\* it appends "" and pushes one snapshot; on a Scalar it fails with document
\* and stacks unchanged.
C22_AddChild ==
    AddChildOf =>
        /\ (IsDict(AddChildParent) /\ last.arg # ""
                /\ ~HasKey(AddChildParent, Key(last.arg))) =>
              /\ Succeeded
              /\ data = Replace(last.data, AddChildPath,
                                Obj(Append(AddChildParent.c, KV(last.arg, Str("")))))
              /\ OneSnapshotPushed
        /\ (IsDict(AddChildParent) /\ HasKey(AddChildParent, Key(last.arg))) =>
              (Failed /\ DocumentUnchanged /\ StacksUntouched)
        /\ (IsDict(AddChildParent) /\ last.arg = "") =>
              (DocumentUnchanged /\ StacksUntouched)
        /\ IsList(AddChildParent) =>
              /\ Succeeded
              /\ data = Replace(last.data, AddChildPath,
                                Arr(Append(AddChildParent.c, Str(""))))
              /\ OneSnapshotPushed
        /\ ~IsContainer(AddChildParent) =>
              (Failed /\ DocumentUnchanged /\ StacksUntouched)

\* A child added to an Object below the root that already held a key.
C22_Witness ==
    /\ AddChildOf
    /\ AddChildPath # <<>>
    /\ IsDict(AddChildParent)
    /\ AddChildParent.c # <<>>
    /\ Succeeded
    /\ data # last.data

RECURSIVE Addresses(_, _)
\* path leads to a node of document d: every step is a key of an Object or
\* an index of an Array.
Addresses(d, path) ==
    \/ path = <<>>
    \/ /\ IsContainer(d)
       /\ ~Raised(GetItem(d, Head(path)))
       /\ Addresses(GetItem(d, Head(path)), Tail(path))

\* A delete of the one selected node, which is not the root.
DeleteOf ==
    /\ last.op = "delete"
    /\ Len(last.paths) = 1
    /\ last.paths[1] # <<>>
    /\ Addresses(last.data, last.paths[1])

DeleteParent == ParentIn(last.data, last.paths[1])

\* C23: a delete of a node other than the root succeeds and leaves the
\* document as it was except that the parent lost that one entry: an Object
\* keeps its other keys in order, an Array keeps the elements before the
\* index and has those after it one index lower.
C23_DeleteSubtree ==
    DeleteOf =>
        /\ Succeeded
        /\ data = Replace(last.data, Front(last.paths[1]),
                    IF IsDict(DeleteParent)
                    THEN Obj(SelectSeq(DeleteParent.c,
                                       LAMBDA e : e.key # Last(last.paths[1])))
                    ELSE Arr(AtIndices(DeleteParent.c,
                                {Idx(i) : i \in 0..(Len(DeleteParent.c) - 1)}
                                    \ {Last(last.paths[1])}, 1)))

\* The middle one of three children deleted.
C23_Witness ==
    /\ DeleteOf
    /\ Succeeded
    /\ Len(DeleteParent.c) = 3
    /\ Len(Walk(data, Front(last.paths[1])).c) = 2
    /\ Walk(last.data, last.paths[1]) = DeleteParent.c[2]

----------------------------------------------------------------------------
(* View and text *)

\* The paths cached for the items the tree shows.
CachedPaths == {item_to_path[it] : it \in Range(tree)}

\* C24: once the tree has been filled, after every rename, value edit,
\* add-child, delete, delete-and-transfer, move, grouping, undo, redo and
\* text commit that returns, done or given up with an error message, the
\* cached paths are exactly the paths of the nodes of the document.
C24_PathTableConsistent ==
    (/\ last.op \in Mutating \cup {"undo", "redo", "text"}
     /\ last.out \in {"ok", "error"}
     /\ tree # <<>>)
    => CachedPaths = PathsIn(data)

\* C25: a text commit whose text does not parse leaves the document, the
\* undo stack and the redo stack as they were and gives the text view the
\* invalid background; a text commit whose text parses makes the parsed
\* value the document and gives the text view its normal background.
C25_TextCommit ==
    last.op = "text" =>
        LET new_data == json_loads(last.content) IN
        IF Raised(new_data)
        THEN /\ Failed
             /\ data = last.data
             /\ undo_stack = last.undo_stack
             /\ redo_stack = last.redo_stack
             /\ text_bg = INVALID_BG
        ELSE /\ Succeeded
             /\ data = new_data
             /\ text_bg = DARK_BG

\* Text that breaks off after a colon is committed over a document that
\* has a snapshot to undo to.
C25_Witness ==
    /\ last.op = "text"
    /\ last.content = <<P("{"), StrTok("a"), P(":")>>
    /\ last.undo_stack # <<>>
    /\ last.data # Obj(<<>>)
    /\ text_bg = INVALID_BG

\* C26: parsing the text printed for the document gives the document back,
\* keys and elements in their order; and a text commit of the text printed
\* for the document leaves the document as it was.
C26_RoundTrip ==
    /\ json_loads(json_dumps(data)) = data
    /\ (last.op = "text" /\ last.content = json_dumps(last.data))
           => (Succeeded /\ data = last.data)

----------------------------------------------------------------------------
(* Conservation of content *)

\* How often the value v occurs as a node of document d.
Occurrences(d, v) == Cardinality({path \in PathsIn(d) : Walk(d, path) = v})

\* The Scalar values at the leaves of document d.
ScalarsOf(d) == {v \in {Walk(d, path) : path \in PathsIn(d)} : ~IsContainer(v)}

\* Documents a and b hold the same multiset of Scalar leaves.
SameLeaves(a, b) ==
    \A v \in ScalarsOf(a) \cup ScalarsOf(b) : Occurrences(a, v) = Occurrences(b, v)

\* A move, rename, delete-and-transfer or grouping that ran to its end
\* without reporting an error.
Restructured ==
    /\ last.op \in {"move", "rename", "transfer", "group"}
    /\ Succeeded
    /\ ~last.reported

\* No selected item lies below another selected item.
Independent ==
    \A i, j \in 1..Len(last.paths) :
        i # j => ~IsPrefix(last.paths[i], last.paths[j])

\* The nodes the call was made on: the dragged node of a move, the selected
\* nodes of a grouping of independent items.  The root item, which has no
\* parent to be taken out of, and an item whose cached path leads to no node
\* are not among them.
Carried ==
    {Walk(last.data, last.paths[j]) :
         j \in {i \in 1..Len(last.paths) :
                   /\ (last.op = "group" /\ Independent) \/ (last.op = "move" /\ i = 1)
                   /\ last.paths[i] # <<>>
                   /\ Addresses(last.data, last.paths[i])}}

\* The number of nodes of document d.
Size(d) == Cardinality(PathsIn(d))

\* The nodes the call adds or takes away: none for a move and a rename, the
\* emptied container for a delete-and-transfer; a grouping only adds
\* group containers.
SizeKept ==
    CASE last.op = "transfer" -> Size(data) = Size(last.data) - 1
      [] last.op = "group" -> Size(data) >= Size(last.data)
      [] OTHER -> Size(data) = Size(last.data)

\* C27: a move, rename, delete-and-transfer or grouping that completes
\* leaves the multiset of Scalar leaf values of the document as it was;
\* the moved or grouped subtrees are in the result, and no node besides the
\* containers the call itself adds or removes has come or gone.
C27_ContentConserved ==
    Restructured =>
        /\ SameLeaves(last.data, data)
        /\ \A v \in Carried : Occurrences(data, v) >= 1
        /\ SizeKept

\* A container that holds Scalar leaves has been moved, or two nodes or more
\* have been grouped, and the document has changed.
C27_Witness ==
    /\ Restructured
    /\ data # last.data
    /\ \/ last.op = "move" /\ \E v \in Carried : IsContainer(v) /\ ScalarsOf(v) # {}
       \/ last.op = "group" /\ Cardinality(Carried) >= 2

----------------------------------------------------------------------------
(* Moves out of an Array into an Object *)

\* A move of an element of an Array whose destination is an Object: dropped
\* with mode nest on an Object, or with mode insert_before or insert_after
\* on a Scalar entry of an Object.
ArrayToObject ==
    /\ last.op = "move"
    /\ last.paths[1] # <<>>
    /\ Addresses(last.data, last.paths[1])
    /\ Addresses(last.data, last.paths[2])
    /\ ~IsPrefix(last.paths[1], last.paths[2])
    /\ IsList(ParentIn(last.data, last.paths[1]))
    /\ \/ last.arg = "nest" /\ IsDict(TargetValue)
       \/ /\ last.arg \in {"insert_before", "insert_after"}
          /\ ~IsContainer(TargetValue)
          /\ IsDict(ParentIn(last.data, last.paths[2]))

\* The path of the destination Object before the move.
DestinationPath ==
    IF IsDict(TargetValue) THEN last.paths[2] ELSE Front(last.paths[2])

\* The document before the move with the source element taken out of its
\* Array.
ElementDetached ==
    Replace(last.data, Front(last.paths[1]),
            Arr(RemoveAt(ParentIn(last.data, last.paths[1]).c,
                         Last(last.paths[1]).i + 1)))

\* The path that leads, once the source element is out, to the node that
\* path led to before: an index into the source's Array behind the source
\* has gone down by one.
AfterDetach(path) ==
    LET n == Len(last.paths[1]) IN
    IF /\ Len(path) >= n
       /\ SubSeq(path, 1, n - 1) = Front(last.paths[1])
       /\ path[n].i > Last(last.paths[1]).i
    THEN [path EXCEPT ![n] = Idx(@.i - 1)]
    ELSE path

\* C28: a move of an Array element whose destination is an Object succeeds
\* and leaves the element's value as the last entry of the destination,
\* under the key item or under item_N for the smallest free N >= 1 when item
\* is a key of the destination; the entries the destination had keep their
\* keys, values and order and the rest of the document is unchanged.
C28_ElementIntoObject ==
    ArrayToObject =>
        /\ Succeeded
        /\ data = Replace(ElementDetached, AfterDetach(DestinationPath),
                          AppendedUnder(Walk(ElementDetached,
                                             AfterDetach(DestinationPath)),
                                        "item", MovedValue))

====
